---- MODULE Spec2Model ----
(***************************************************************************)
(* The GCE host driver (hosts/drivers/gce): the Driver verbs Create,       *)
(* GetState, Start, Stop, Remove, Restart and Kill, the ComputeUtil        *)
(* lifecycle steps createDisk, deleteDisk, createInstance, deleteInstance  *)
(* and waitForOp, run against the compute API.  Every remote call of the   *)
(* code is one step of the driver; the compute API is the environment: it  *)
(* holds the disk, the instance and the zone operations, accepts or        *)
(* rejects each call on the state it is in, and advances operations on its *)
(* own.  A call or a collaborator may also fail (transport errors, command *)
(* errors): these injected failures are counted in faults.                 *)
(***************************************************************************)
EXTENDS Naturals, Sequences, FiniteSets

VARIABLES
    disk,     \* the remote disk <instanceName>-disk: [exists, id]
    inst,     \* the remote instance: [exists, id, status, fp, key]
    ops,      \* the zone operations in flight: name -> [kind, status, errs, target]
    drv,      \* each driver invocation's local state (one record per caller)
    faults,   \* injected failures so far
    writes,   \* metadata writes by another writer so far
    obs       \* observer of the sequence create, stop, start on a fresh host

vars == <<disk, inst, ops, drv, faults, writes, obs>>

(* ------------------------------ bounds --------------------------------- *)

\* Injected failures (transport errors, operation errors, command errors) per run.
MaxFaults == 1
\* Polls of one waitForOp call that find the operation not yet DONE.
MaxPolls == 2
\* Metadata writes by a writer other than the driver.
MaxOtherWrites == 1

(* --------------------------- values ------------------------------------ *)

\* the callers of the driver: each runs one verb at a time
Procs == DOMAIN drv

\* raw.Instance.Status: the six values GetState names, and one it does not.
KnownStatuses == {"PROVISIONING", "STAGING", "RUNNING", "STOPPING", "STOPPED", "TERMINATED"}
Statuses == KnownStatuses \cup {"SUSPENDED"}

\* hosts/state.State
StateNone == "None"
StateStopped == "Stopped"
StateStarting == "Starting"
StateRunning == "Running"

\* error values: nil, and an error with its kind and detail
Nil == [kind |-> "nil", detail |-> ""]
Err(k) == [kind |-> k, detail |-> ""]
\* fmt.Errorf("Operation error: %v", e)
OperationError(e) == [kind |-> "OperationFailed", detail |-> e]

\* raw.Operation.Error.Errors of a failed operation
ErrorLists == {<<"QUOTA_EXCEEDED">>, <<"RESOURCE_NOT_READY", "INTERNAL_ERROR">>}

NoDisk == [exists |-> FALSE, id |-> 0]
NoInst == [exists |-> FALSE, id |-> 0, status |-> "", fp |-> 0, key |-> "none"]

Verbs == {"create", "getState", "start", "stop", "remove", "restart", "kill"}

(* --------------------------- State Deriver ----------------------------- *)

\* the switch of GetState on instance.Status
StatusState(status) ==
    CASE status \in {"PROVISIONING", "STAGING"} -> StateStarting
      [] status = "RUNNING" -> StateRunning
      [] status \in {"STOPPING", "STOPPED", "TERMINATED"} -> StateStopped
      [] OTHER -> StateNone

\* a GetState that looks at the disk before the instance
GetStateDiskFirst(d, i) ==
    IF ~i.exists /\ ~d THEN StateNone
    ELSE IF d THEN StateStopped
    ELSE StatusState(i.status)

\* GetState on what the two lookups returned: d is "disk != nil", i the instance
\* (i.exists is "instance != nil")
GetState(d, i) ==
    IF ~i.exists /\ ~d THEN StateNone
    ELSE IF ~i.exists /\ d THEN StateStopped
    ELSE StatusState(i.status)

\* the state GetState derives when both lookups answer
DerivedState == GetState(disk.exists, inst)

(* ----------------------------- compute API ----------------------------- *)

OpNames == 1..8

FreshOp == CHOOSE n \in OpNames : n \notin DOMAIN ops /\ \A m \in OpNames : m < n => m \in DOMAIN ops

Targets(kinds) == {ops[o].target : o \in {x \in DOMAIN ops : ops[x].kind \in kinds}}

\* an id for a new resource that no operation in flight refers to
FreshId(kinds) == CHOOSE n \in 0..8 : n \notin Targets(kinds) /\ \A m \in 0..8 : m < n => m \in Targets(kinds)

DiskKinds == {"diskInsert", "diskDelete"}
InstKinds == {"instInsert", "instDelete", "setMetadata"}

NewOp(kind, target) == [kind |-> kind, status |-> "PENDING", errs |-> <<>>, target |-> target]

WithOp(o) == [n \in DOMAIN ops \cup {FreshOp} |-> IF n = FreshOp THEN o ELSE ops[n]]
WithoutOp(n) == [m \in DOMAIN ops \ {n} |-> ops[m]]

Awaited(n) == \E p \in Procs : drv[p].pc = "waitForOp" /\ drv[p].op = n

\* the operations whose waiter gave up on a failed query: they run on unobserved
Abandoned == {n \in DOMAIN ops : ~Awaited(n)}

\* a provider that accepts the insert of a disk that exists, and replaces it
DisksInsertAnswerReplaces == Nil

\* the API's answer to a call: the error it returns on the state it is in
DisksInsertAnswer == IF disk.exists THEN Err("alreadyExists") ELSE Nil
DisksDeleteAnswer ==
    IF ~disk.exists THEN Err("notFound")
    ELSE IF inst.exists THEN Err("resourceInUse")
    ELSE Nil
\* the disk is still being created
DiskNotReady == \E n \in DOMAIN ops : ops[n].kind = "diskInsert" /\ ops[n].target = disk.id
InstancesInsertAnswer ==
    IF inst.exists THEN Err("alreadyExists")
    ELSE IF ~disk.exists THEN Err("notFound")
    ELSE IF DiskNotReady THEN Err("resourceNotReady")
    ELSE Nil
InstancesDeleteAnswer == IF inst.exists THEN Nil ELSE Err("notFound")
SetMetadataAnswer(fp) ==
    IF ~inst.exists THEN Err("notFound")
    ELSE IF fp # inst.fp THEN Err("conditionNotMet")
    ELSE Nil

\* an instance whose boot disk is auto-deleting: the disk goes with the instance
ProgressAutoDelete(o, status) ==
    CASE o.kind = "instInsert" /\ inst.exists /\ inst.id = o.target /\ o.errs = <<>> ->
            /\ inst' = [inst EXCEPT !.status = IF status = "DONE" THEN "RUNNING" ELSE "STAGING"]
            /\ disk' = disk
      [] o.kind = "instDelete" /\ inst.exists /\ inst.id = o.target /\ o.errs = <<>> /\ status = "DONE" ->
            /\ inst' = NoInst
            /\ disk' = NoDisk
      [] o.kind = "diskDelete" /\ disk.exists /\ disk.id = o.target /\ o.errs = <<>> /\ status = "DONE"
              /\ ~inst.exists ->
            /\ disk' = NoDisk
            /\ inst' = inst
      [] OTHER -> UNCHANGED <<disk, inst>>

\* an operation's effect on its resource when it reaches a status
Progress(o, status) ==
    CASE o.kind = "instInsert" /\ inst.exists /\ inst.id = o.target /\ o.errs = <<>> ->
            /\ inst' = [inst EXCEPT !.status = IF status = "DONE" THEN "RUNNING" ELSE "STAGING"]
            /\ disk' = disk
      [] o.kind = "instDelete" /\ inst.exists /\ inst.id = o.target /\ o.errs = <<>> /\ status = "DONE" ->
            /\ inst' = NoInst
            /\ disk' = disk
      [] o.kind = "diskDelete" /\ disk.exists /\ disk.id = o.target /\ o.errs = <<>> /\ status = "DONE"
              /\ ~inst.exists ->
            /\ disk' = NoDisk
            /\ inst' = inst
      [] OTHER -> UNCHANGED <<disk, inst>>

NextStatus(status) == IF status = "PENDING" THEN "RUNNING" ELSE "DONE"

\* the API advances an operation: PENDING, RUNNING, DONE
AdvanceOp(n) ==
    /\ n \in DOMAIN ops
    /\ ops[n].status # "DONE"
    /\ LET s == NextStatus(ops[n].status) IN
        /\ Progress(ops[n], s)
        /\ ops' = IF s = "DONE" /\ ~Awaited(n) THEN WithoutOp(n)
                  ELSE [ops EXCEPT ![n].status = s]
    /\ UNCHANGED <<drv, faults, writes, obs>>

\* an operation fails: its error list is set, and an insert's resource is gone
FailOp(n, errs) ==
    /\ n \in DOMAIN ops
    /\ ops[n].status # "DONE"
    /\ ops[n].errs = <<>>
    /\ faults < MaxFaults
    /\ faults' = faults + 1
    /\ ops' = [ops EXCEPT ![n].errs = errs]
    /\ inst' = IF ops[n].kind = "instInsert" /\ inst.exists /\ inst.id = ops[n].target
               THEN NoInst ELSE inst
    /\ disk' = IF ops[n].kind = "diskInsert" /\ disk.exists /\ disk.id = ops[n].target
               THEN NoDisk ELSE disk
    /\ UNCHANGED <<drv, writes, obs>>

\* another writer sets the instance's metadata: the fingerprint changes
OtherWriter ==
    /\ inst.exists
    /\ writes < MaxOtherWrites
    /\ writes' = writes + 1
    /\ inst' = [inst EXCEPT !.fp = @ + 1, !.key = "other"]
    /\ UNCHANGED <<disk, ops, drv, faults, obs>>

(* ------------------------------ the driver ----------------------------- *)

NoWait == [done |-> FALSE, err |-> Nil]

Idle == [pc |-> "idle", verb |-> "", disk |-> FALSE, instance |-> NoInst,
         op |-> 0, wret |-> "", log |-> <<>>, seen |-> <<>>, polls |-> <<>>, wres |-> NoWait,
         result |-> [err |-> Nil, state |-> ""],
         start |-> [state |-> "", disk |-> NoDisk, inst |-> NoInst, faults |-> 0, writes |-> 0]]

Event(ev, what, e) == [ev |-> ev, what |-> what, err |-> e]
Logged(d, ev, what, e) == [d EXCEPT !.log = Append(@, Event(ev, what, e))]

\* what a lookup or a collaborator gave the invocation: val is "a resource was
\* returned" for a lookup and "it succeeded" for a collaborator
Saw(d, what, val, e) == [d EXCEPT !.seen = Append(@, [what |-> what, val |-> val, err |-> e])]

\* the verb returns e to its caller
Returns(d, e) == [d EXCEPT !.pc = "ret", !.result = [err |-> e, state |-> ""]]

\* a createInstance that deletes the instance it made when a later step fails
RetCreateInstanceCleansUp(d, e) ==
    IF e # Nil /\ \E i \in 1..Len(d.log) : d.log[i] = Event("wait", "instInsert", Nil)
    THEN [Logged(d, "step", "createInstance", e) EXCEPT !.pc = "di_delete"]
    ELSE Returns(Logged(d, "step", "createInstance", e), e)

\* createInstance returns e: Create, Start and Restart return it
RetCreateInstance(d, e) == Returns(Logged(d, "step", "createInstance", e), e)

\* deleteDisk returns e: Remove returns it
RetDeleteDisk(d, e) == Returns(Logged(d, "step", "deleteDisk", e), e)

\* a deleteInstance after which Stop goes on to deleteDisk, as Remove does
RetDeleteInstanceStopRemoves(d, e) ==
    LET l == Logged(d, "step", "deleteInstance", e) IN
    CASE d.verb = "kill" -> Returns(l, e)
      [] d.verb = "restart" -> IF e # Nil THEN Returns(l, e) ELSE [l EXCEPT !.pc = "ci_disk"]
      [] OTHER -> [l EXCEPT !.pc = "dd_delete"]

\* a Restart that goes on to createInstance whatever deleteInstance returned
RetDeleteInstanceRestartGoesOn(d, e) ==
    LET l == Logged(d, "step", "deleteInstance", e) IN
    CASE d.verb \in {"stop", "kill"} -> Returns(l, e)
      [] d.verb = "restart" -> [l EXCEPT !.pc = "ci_disk"]
      [] OTHER -> [l EXCEPT !.pc = "dd_delete"]

\* a Stop that only logs what deleteInstance returned, as Remove does
RetDeleteInstanceStopSwallows(d, e) ==
    LET l == Logged(d, "step", "deleteInstance", e) IN
    CASE d.verb \in {"stop", "kill"} -> Returns(l, Nil)
      [] d.verb = "restart" -> IF e # Nil THEN Returns(l, e) ELSE [l EXCEPT !.pc = "ci_disk"]
      [] OTHER -> [l EXCEPT !.pc = "dd_delete"]

\* deleteInstance returns e: Stop (and Kill) return it; Restart returns it when
\* it is an error and goes on to createInstance when not; Remove logs it and
\* goes on to deleteDisk
RetDeleteInstance(d, e) ==
    LET l == Logged(d, "step", "deleteInstance", e) IN
    CASE d.verb \in {"stop", "kill"} -> Returns(l, e)
      [] d.verb = "restart" -> IF e # Nil THEN Returns(l, e) ELSE [l EXCEPT !.pc = "ci_disk"]
      [] OTHER -> [l EXCEPT !.pc = "dd_delete"]

\* a createInstance that goes on to the instance insert whatever createDisk returned
RetCreateDiskGoesOn(d, e) == [Logged(d, "step", "createDisk", e) EXCEPT !.pc = "ci_insert"]

\* a createInstance that calls createDisk once more when it failed
RetCreateDiskRetries(d, e) ==
    LET l == Logged(d, "step", "createDisk", e)
        tried == {i \in 1..Len(d.log) : d.log[i].ev = "call" /\ d.log[i].what = "diskInsert"} IN
    IF e # Nil /\ Cardinality(tried) < 2 THEN [l EXCEPT !.pc = "cd_insert"]
    ELSE IF e # Nil THEN RetCreateInstance(l, e)
    ELSE [l EXCEPT !.pc = "ci_insert"]

\* createDisk returns e to createInstance, which returns an error and goes on
\* to the instance insert when there is none
RetCreateDisk(d, e) ==
    LET l == Logged(d, "step", "createDisk", e) IN
    IF e # Nil THEN RetCreateInstance(l, e) ELSE [l EXCEPT !.pc = "ci_insert"]

\* waitForOp returns e to the step that called it
RetWaitForOp(d, e) ==
    LET l == [Logged(d, "wait", d.wret, e) EXCEPT !.op = 0, !.wret = "", !.polls = <<>>, !.wres = NoWait] IN
    CASE d.wret = "diskInsert" -> RetCreateDisk(l, e)
      [] d.wret = "instInsert" -> IF e # Nil THEN RetCreateInstance(l, e) ELSE [l EXCEPT !.pc = "ci_get"]
      [] d.wret = "setMetadata" -> IF e # Nil THEN RetCreateInstance(l, e) ELSE [l EXCEPT !.pc = "ci_config"]
      [] d.wret = "instDelete" -> RetDeleteInstance(l, e)
      [] OTHER -> RetDeleteDisk(l, e)

\* a createInstance that does not wait for the SetMetadata operation
WaitsNotForMetadata(d, kind) ==
    IF kind = "setMetadata" THEN [d EXCEPT !.pc = "ci_config"]
    ELSE [d EXCEPT !.pc = "waitForOp", !.op = FreshOp, !.wret = kind,
                   !.polls = <<>>, !.wres = NoWait]

\* a step calls waitForOp(op.Name)
Waits(d, kind) == [d EXCEPT !.pc = "waitForOp", !.op = FreshOp, !.wret = kind,
                            !.polls = <<>>, !.wres = NoWait]

\* a remote call or a collaborator fails when fail is chosen: an injected failure
Inject(fail) ==
    /\ fail => faults < MaxFaults
    /\ faults' = IF fail THEN faults + 1 ELSE faults

\* Disks.Get(...).Do() and Instances.Get(...).Do(): the value and the error
DisksGet(fail) ==
    IF fail THEN [val |-> FALSE, err |-> Err("transport")]
    ELSE IF disk.exists THEN [val |-> TRUE, err |-> Nil]
    ELSE [val |-> FALSE, err |-> Err("notFound")]
InstancesGet(fail) ==
    IF fail THEN [val |-> NoInst, err |-> Err("transport")]
    ELSE IF inst.exists THEN [val |-> inst, err |-> Nil]
    ELSE [val |-> NoInst, err |-> Err("notFound")]

\* a call that takes the API's "not found" for success
CallErrAbsenceIsSuccess(fail, answer) ==
    IF fail THEN Err("transport")
    ELSE IF answer = Err("notFound") THEN Nil
    ELSE answer

\* the error of a mutating call: the transport's, or the API's answer
CallErr(fail, answer) == IF fail THEN Err("transport") ELSE answer

(* the observer of create, stop, start on a host with no disk and no instance *)

ObsOff == [stage |-> "off", derived |-> <<>>, inserts |-> 0, disk |-> FALSE, inst |-> FALSE, id |-> 0]

ObsStart(v) ==
    IF v = "getState" THEN obs
    ELSE IF v = "create" /\ ~disk.exists /\ ~inst.exists /\ DOMAIN ops = {}
        THEN [ObsOff EXCEPT !.stage = "creating"]
    ELSE IF v = "stop" /\ obs.stage = "created" THEN [obs EXCEPT !.stage = "stopping"]
    ELSE IF v = "start" /\ obs.stage = "stopped" THEN [obs EXCEPT !.stage = "starting"]
    ELSE ObsOff

ObsReturn(d) ==
    IF d.verb = "getState" THEN obs
    ELSE IF d.result.err = Nil /\ obs.stage = "creating"
        THEN [obs EXCEPT !.stage = "created", !.derived = Append(@, DerivedState), !.id = disk.id]
    ELSE IF d.result.err = Nil /\ obs.stage = "stopping"
        THEN [obs EXCEPT !.stage = "stopped", !.derived = Append(@, DerivedState),
                         !.disk = disk.exists /\ disk.id = obs.id, !.inst = inst.exists]
    ELSE IF d.result.err = Nil /\ obs.stage = "starting"
        THEN [obs EXCEPT !.stage = "started", !.derived = Append(@, DerivedState),
                         !.disk = disk.exists /\ disk.id = obs.id]
    ELSE ObsOff

ObsInsert == IF obs.stage = "off" THEN obs ELSE [obs EXCEPT !.inserts = @ + 1]

(* the verbs *)

\* a caller invokes a verb: newComputeUtil, then the verb's first step.  Callers
\* invoke a verb once the operations an earlier invocation abandoned have run
\* to their end.
StartVerb(p, v) ==
    /\ drv[p].pc = "idle"
    /\ Abandoned = {}
    /\ drv' = [drv EXCEPT ![p] = [Idle EXCEPT
            !.verb = v,
            !.pc = CASE v = "create" -> "cr_instance"
                     [] v \in {"getState", "remove"} -> "gs_disk"
                     [] v = "start" -> "ci_disk"
                     [] OTHER -> "di_delete",
            !.start = [state |-> DerivedState, disk |-> disk, inst |-> inst, faults |-> faults,
                       writes |-> writes]]]
    /\ obs' = ObsStart(v)
    /\ UNCHANGED <<disk, inst, ops, faults, writes>>

\* the caller takes the verb's result
Return(p) ==
    /\ drv[p].pc = "ret"
    /\ drv' = [drv EXCEPT ![p] = Idle]
    /\ obs' = ObsReturn(drv[p])
    /\ UNCHANGED <<disk, inst, ops, faults, writes>>

\* Create: the instance lookup and the existence guard
CreateCheck(p, fail) ==
    /\ drv[p].pc = "cr_instance"
    /\ Inject(fail)
    /\ LET got == InstancesGet(fail)
           instance == got.val
           s == Saw(drv[p], "instancesGet", instance.exists, got.err) IN
       drv' = [drv EXCEPT ![p] =
            IF instance.exists THEN Returns(s, Err("alreadyExists"))
            ELSE [s EXCEPT !.pc = "cr_keygen"]]
    /\ UNCHANGED <<disk, inst, ops, writes, obs>>

\* Create: ssh.GenerateSSHKey, then createInstance
CreateKeygen(p, fail) ==
    /\ drv[p].pc = "cr_keygen"
    /\ Inject(fail)
    /\ drv' = [drv EXCEPT ![p] =
            IF fail THEN Returns(Saw(@, "keygen", FALSE, Err("keygen")), Err("keygen"))
            ELSE [Saw(@, "keygen", TRUE, Nil) EXCEPT !.pc = "ci_disk"]]
    /\ UNCHANGED <<disk, inst, ops, writes, obs>>

\* GetState: the disk lookup, its error dropped
GetStateDisk(p, fail) ==
    /\ drv[p].pc = "gs_disk"
    /\ Inject(fail)
    /\ LET got == DisksGet(fail) IN
       drv' = [drv EXCEPT ![p] =
            [Saw(@, "disksGet", got.val, got.err) EXCEPT !.disk = got.val, !.pc = "gs_instance"]]
    /\ UNCHANGED <<disk, inst, ops, writes, obs>>

\* a Remove that calls deleteInstance unless the state is None
RemoveOnWhenNotNone(d, s) == [d EXCEPT !.pc = IF s # StateNone THEN "di_delete" ELSE "dd_delete"]

\* Remove, once GetState returned s: deleteInstance when s is Running, then deleteDisk
RemoveOn(d, s) == [d EXCEPT !.pc = IF s = StateRunning THEN "di_delete" ELSE "dd_delete"]

\* GetState: the instance lookup, its error dropped, and the state derived;
\* the verb getState returns it, Remove goes on with it
GetStateInstance(p, fail) ==
    /\ drv[p].pc = "gs_instance"
    /\ Inject(fail)
    /\ LET got == InstancesGet(fail)
           instance == got.val
           s == GetState(drv[p].disk, instance)
           l == Logged(Saw(drv[p], "instancesGet", instance.exists, got.err), "state", s, Nil) IN
       drv' = [drv EXCEPT ![p] =
            IF @.verb = "getState"
            THEN [l EXCEPT !.pc = "ret", !.instance = instance, !.result = [err |-> Nil, state |-> s]]
            ELSE RemoveOn(l, s)]
    /\ UNCHANGED <<disk, inst, ops, writes, obs>>

(* the lifecycle steps *)

\* a createInstance that calls createDisk whatever its disk lookup returned
CreateInstanceDiskAlwaysCreates(p, fail) ==
    /\ drv[p].pc = "ci_disk"
    /\ Inject(fail)
    /\ LET got == DisksGet(fail)
           d == got.val IN
       drv' = [drv EXCEPT ![p] =
            [Saw(@, "disksGet", d, got.err) EXCEPT !.disk = d, !.pc = "cd_insert"]]
    /\ UNCHANGED <<disk, inst, ops, writes, obs>>

\* createInstance: the disk lookup, its error dropped; createDisk when it
\* returned no disk
CreateInstanceDisk(p, fail) ==
    /\ drv[p].pc = "ci_disk"
    /\ Inject(fail)
    /\ LET got == DisksGet(fail)
           d == got.val IN
       drv' = [drv EXCEPT ![p] =
            [Saw(@, "disksGet", d, got.err) EXCEPT !.disk = d, !.pc = IF d THEN "ci_insert" ELSE "cd_insert"]]
    /\ UNCHANGED <<disk, inst, ops, writes, obs>>

\* createDisk: Disks.Insert, then waitForOp
CreateDisk(p, fail) ==
    /\ drv[p].pc = "cd_insert"
    /\ Inject(fail)
    /\ obs' = ObsInsert
    /\ LET e == CallErr(fail, DisksInsertAnswer)
           l == Logged(drv[p], "call", "diskInsert", e) IN
       IF e # Nil
       THEN /\ drv' = [drv EXCEPT ![p] = RetCreateDisk(l, e)]
            /\ UNCHANGED <<disk, ops>>
       ELSE /\ drv' = [drv EXCEPT ![p] = Waits(l, "diskInsert")]
            /\ disk' = [exists |-> TRUE, id |-> FreshId(DiskKinds)]
            /\ ops' = WithOp(NewOp("diskInsert", FreshId(DiskKinds)))
    /\ UNCHANGED <<inst, writes>>

\* createInstance: Instances.Insert, then waitForOp
CreateInstanceInsert(p, fail) ==
    /\ drv[p].pc = "ci_insert"
    /\ Inject(fail)
    /\ LET e == CallErr(fail, InstancesInsertAnswer)
           l == Logged(drv[p], "call", "instInsert", e) IN
       IF e # Nil
       THEN /\ drv' = [drv EXCEPT ![p] = RetCreateInstance(l, e)]
            /\ UNCHANGED <<inst, ops>>
       ELSE /\ drv' = [drv EXCEPT ![p] = Waits(l, "instInsert")]
            /\ inst' = [exists |-> TRUE, id |-> FreshId(InstKinds), status |-> "PROVISIONING",
                        fp |-> 0, key |-> "none"]
            /\ ops' = WithOp(NewOp("instInsert", FreshId(InstKinds)))
    /\ UNCHANGED <<disk, writes, obs>>

\* createInstance: the instance is fetched again, for its address and fingerprint
CreateInstanceGet(p, fail) ==
    /\ drv[p].pc = "ci_get"
    /\ Inject(fail)
    /\ LET got == InstancesGet(fail) IN
       drv' = [drv EXCEPT ![p] =
            IF got.err # Nil THEN RetCreateInstance(Saw(@, "instancesGet", got.val.exists, got.err), got.err)
            ELSE [Saw(@, "instancesGet", got.val.exists, got.err) EXCEPT !.instance = got.val, !.pc = "ci_ssh"]]
    /\ UNCHANGED <<disk, inst, ops, writes, obs>>

\* createInstance: waitForSSH blocks until the host accepts connections, or
\* fails; createInstance does not look at what it returned
CreateInstanceSSH(p, fail) ==
    /\ drv[p].pc = "ci_ssh"
    /\ Inject(fail)
    /\ fail \/ (inst.exists /\ inst.status = "RUNNING")
    /\ drv' = [drv EXCEPT ![p] =
            [Saw(@, "waitForSSH", ~fail, IF fail THEN Err("waitForTCP") ELSE Nil) EXCEPT !.pc = "ci_readkey"]]
    /\ UNCHANGED <<disk, inst, ops, writes, obs>>

\* createInstance: ioutil.ReadFile(publicSSHKeyPath)
CreateInstanceReadKey(p, fail) ==
    /\ drv[p].pc = "ci_readkey"
    /\ Inject(fail)
    /\ drv' = [drv EXCEPT ![p] =
            IF fail THEN RetCreateInstance(Saw(@, "readFile", FALSE, Err("readFile")), Err("readFile"))
            ELSE [Saw(@, "readFile", TRUE, Nil) EXCEPT !.pc = "ci_setmeta"]]
    /\ UNCHANGED <<disk, inst, ops, writes, obs>>

\* a SetMetadata that carries whatever fingerprint the instance has now
SentFingerprintCurrent(d) == inst.fp

\* the fingerprint createInstance sends with SetMetadata
SentFingerprint(d) == d.instance.fp

\* createInstance: Instances.SetMetadata with the fetched fingerprint, then waitForOp
CreateInstanceSetMetadata(p, fail) ==
    /\ drv[p].pc = "ci_setmeta"
    /\ Inject(fail)
    /\ LET e == CallErr(fail, SetMetadataAnswer(SentFingerprint(drv[p])))
           l == Logged(drv[p], "call", "setMetadata", e) IN
       IF e # Nil
       THEN /\ drv' = [drv EXCEPT ![p] = RetCreateInstance(l, e)]
            /\ UNCHANGED <<inst, ops>>
       ELSE /\ drv' = [drv EXCEPT ![p] = Waits(l, "setMetadata")]
            /\ inst' = [inst EXCEPT !.fp = @ + 1, !.key = "driver"]
            /\ ops' = WithOp(NewOp("setMetadata", inst.id))
    /\ UNCHANGED <<disk, writes, obs>>

\* createInstance: configureInstance runs its commands over ssh
CreateInstanceConfigure(p, fail) ==
    /\ drv[p].pc = "ci_config"
    /\ Inject(fail)
    /\ drv' = [drv EXCEPT ![p] =
            IF fail THEN RetCreateInstance(Saw(@, "configureInstance", FALSE, Err("command")), Err("command"))
            ELSE [Saw(@, "configureInstance", TRUE, Nil) EXCEPT !.pc = "ci_update"]]
    /\ UNCHANGED <<disk, inst, ops, writes, obs>>

\* createInstance: updateDocker runs its commands over ssh, and its result is returned
CreateInstanceUpdate(p, fail) ==
    /\ drv[p].pc = "ci_update"
    /\ Inject(fail)
    /\ LET e == IF fail THEN Err("command") ELSE Nil IN
       drv' = [drv EXCEPT ![p] = RetCreateInstance(Saw(@, "updateDocker", ~fail, e), e)]
    /\ UNCHANGED <<disk, inst, ops, writes, obs>>

\* deleteInstance: Instances.Delete, then waitForOp
DeleteInstance(p, fail) ==
    /\ drv[p].pc = "di_delete"
    /\ Inject(fail)
    /\ LET e == CallErr(fail, InstancesDeleteAnswer)
           l == Logged(drv[p], "call", "instDelete", e) IN
       IF e # Nil
       THEN /\ drv' = [drv EXCEPT ![p] = RetDeleteInstance(l, e)]
            /\ ops' = ops
       ELSE /\ drv' = [drv EXCEPT ![p] = Waits(l, "instDelete")]
            /\ ops' = WithOp(NewOp("instDelete", inst.id))
    /\ UNCHANGED <<disk, inst, writes, obs>>

\* deleteDisk: Disks.Delete, then waitForOp
DeleteDisk(p, fail) ==
    /\ drv[p].pc = "dd_delete"
    /\ Inject(fail)
    /\ LET e == CallErr(fail, DisksDeleteAnswer)
           l == Logged(drv[p], "call", "diskDelete", e) IN
       IF e # Nil
       THEN /\ drv' = [drv EXCEPT ![p] = RetDeleteDisk(l, e)]
            /\ ops' = ops
       ELSE /\ drv' = [drv EXCEPT ![p] = Waits(l, "diskDelete")]
            /\ ops' = WithOp(NewOp("diskDelete", disk.id))
    /\ UNCHANGED <<disk, inst, writes, obs>>

(* the operation waiter *)

Poll(status, errs, fail) == [status |-> status, errs |-> errs, fail |-> fail]

\* a loop that returns the last error of the list
WaitDecisionLastError(op) ==
    IF op.status = "DONE"
    THEN IF op.errs # <<>>
         THEN [return |-> TRUE, err |-> OperationError(op.errs[Len(op.errs)])]
         ELSE [return |-> TRUE, err |-> Nil]
    ELSE [return |-> FALSE, err |-> Nil]

\* a loop that looks at the error list on every poll, whatever the status
WaitDecisionAnyStatus(op) ==
    IF op.errs # <<>> THEN [return |-> TRUE, err |-> OperationError(op.errs[1])]
    ELSE IF op.status = "DONE" THEN [return |-> TRUE, err |-> Nil]
    ELSE [return |-> FALSE, err |-> Nil]

\* a loop that gives up on an operation it finds RUNNING
WaitDecisionGivesUp(op) ==
    IF op.status = "DONE"
    THEN IF op.errs # <<>>
         THEN [return |-> TRUE, err |-> OperationError(op.errs[1])]
         ELSE [return |-> TRUE, err |-> Nil]
    ELSE IF op.status = "RUNNING" THEN [return |-> TRUE, err |-> Err("timeout")]
    ELSE [return |-> FALSE, err |-> Nil]

\* what one iteration of waitForOp's loop decides on the operation it got:
\* DONE with an error returns the first error, DONE without returns nil, and
\* anything else sleeps and polls again
WaitDecision(op) ==
    IF op.status = "DONE"
    THEN IF op.errs # <<>>
         THEN [return |-> TRUE, err |-> OperationError(op.errs[1])]
         ELSE [return |-> TRUE, err |-> Nil]
    ELSE [return |-> FALSE, err |-> Nil]

\* waitForOp: one ZoneOperations.Get and what the loop does with it; a query
\* that fails returns its error
WaitForOp(p, fail) ==
    /\ drv[p].pc = "waitForOp"
    /\ Inject(fail)
    /\ LET n == drv[p].op
           op == ops[n]
           dec == IF fail THEN [return |-> TRUE, err |-> Err("transport")] ELSE WaitDecision(op)
           seen == IF fail THEN Poll("", <<>>, TRUE) ELSE Poll(op.status, op.errs, FALSE) IN
       /\ Len(drv[p].polls) < MaxPolls \/ op.status = "DONE" \/ fail
       /\ drv' = [drv EXCEPT ![p] = [@ EXCEPT
                !.polls = Append(@, seen),
                !.pc = IF dec.return THEN "waitReturn" ELSE @,
                !.wres = [done |-> dec.return, err |-> dec.err]]]
       /\ ops' = IF op.status = "DONE" THEN WithoutOp(n) ELSE ops
    /\ UNCHANGED <<disk, inst, writes, obs>>

\* waitForOp's caller goes on with what it returned
WaitReturn(p) ==
    /\ drv[p].pc = "waitReturn"
    /\ drv' = [drv EXCEPT ![p] = RetWaitForOp(@, @.wres.err)]
    /\ UNCHANGED <<disk, inst, ops, faults, writes, obs>>

(* ---------------------------- specification ---------------------------- *)

EmptyOps == [n \in {} |-> NewOp("", 0)]

\* the host as a caller may find it: nothing, the disk alone, or the disk and
\* an instance in any status
Hosts ==
    {<<NoDisk, NoInst>>, <<[exists |-> TRUE, id |-> 0], NoInst>>}
    \cup {<<[exists |-> TRUE, id |-> 0],
            [exists |-> TRUE, id |-> 0, status |-> st, fp |-> 0, key |-> "none"]>> : st \in Statuses}

Init ==
    /\ \E h \in Hosts : disk = h[1] /\ inst = h[2]
    /\ ops = EmptyOps
    /\ drv = [p \in {"p1"} |-> Idle]
    /\ faults = 0
    /\ writes = 0
    /\ obs = ObsOff

Next ==
    \/ \E n \in OpNames : AdvanceOp(n)
    \/ \E n \in OpNames, errs \in ErrorLists : FailOp(n, errs)
    \/ OtherWriter
    \/ \E p \in Procs, v \in Verbs : StartVerb(p, v)
    \/ \E p \in Procs : Return(p)
    \/ \E p \in Procs, fail \in BOOLEAN : CreateCheck(p, fail)
    \/ \E p \in Procs, fail \in BOOLEAN : CreateKeygen(p, fail)
    \/ \E p \in Procs, fail \in BOOLEAN : GetStateDisk(p, fail)
    \/ \E p \in Procs, fail \in BOOLEAN : GetStateInstance(p, fail)
    \/ \E p \in Procs, fail \in BOOLEAN : CreateInstanceDisk(p, fail)
    \/ \E p \in Procs, fail \in BOOLEAN : CreateDisk(p, fail)
    \/ \E p \in Procs, fail \in BOOLEAN : CreateInstanceInsert(p, fail)
    \/ \E p \in Procs, fail \in BOOLEAN : CreateInstanceGet(p, fail)
    \/ \E p \in Procs, fail \in BOOLEAN : CreateInstanceSSH(p, fail)
    \/ \E p \in Procs, fail \in BOOLEAN : CreateInstanceReadKey(p, fail)
    \/ \E p \in Procs, fail \in BOOLEAN : CreateInstanceSetMetadata(p, fail)
    \/ \E p \in Procs, fail \in BOOLEAN : CreateInstanceConfigure(p, fail)
    \/ \E p \in Procs, fail \in BOOLEAN : CreateInstanceUpdate(p, fail)
    \/ \E p \in Procs, fail \in BOOLEAN : DeleteInstance(p, fail)
    \/ \E p \in Procs, fail \in BOOLEAN : DeleteDisk(p, fail)
    \/ \E p \in Procs, fail \in BOOLEAN : WaitForOp(p, fail)
    \/ \E p \in Procs : WaitReturn(p)

Spec == Init /\ [][Next]_vars

(* ------------------------------- claims -------------------------------- *)

IsCall(e) == e.ev = "call"

\* the mutating calls an invocation issued, in order
Calls(log) == LET c == SelectSeq(log, IsCall) IN [i \in 1..Len(c) |-> c[i].what]

\* the invocations that returned and whose result the caller has not taken yet
Returned(v) == {p \in Procs : drv[p].pc = "ret" /\ drv[p].verb = v}

\* no failure was injected and no other writer wrote during p's invocation
Undisturbed(p) ==
    /\ drv[p].start.faults = faults
    /\ drv[p].start.writes = writes

\* the table of the state deriver, row by row
TableState(d, present, status) ==
    IF ~present THEN (IF d THEN "Stopped" ELSE "None")
    ELSE IF status = "PROVISIONING" \/ status = "STAGING" THEN "Starting"
    ELSE IF status = "RUNNING" THEN "Running"
    ELSE IF status = "STOPPING" \/ status = "STOPPED" \/ status = "TERMINATED" THEN "Stopped"
    ELSE "None"

\* C1: GetState is a total function of (disk present, instance present,
\* instance status): for every combination it returns the state of the table
\* (absent/absent None; disk alone Stopped; with an instance, whatever the
\* disk, PROVISIONING and STAGING Starting, RUNNING Running, STOPPING, STOPPED
\* and TERMINATED Stopped, any other status None), and the verb never returns
\* an error.
C1_GetStateTable ==
    /\ \A d \in BOOLEAN, present \in BOOLEAN, st \in Statuses \cup {""} :
        GetState(d, [NoInst EXCEPT !.exists = present, !.status = st]) = TableState(d, present, st)
    /\ \A p \in Returned("getState") :
        /\ drv[p].result.err = Nil
        /\ drv[p].result.state = TableState(drv[p].disk, drv[p].instance.exists, drv[p].instance.status)

\* getState returned None for an instance whose status is none of the six
C1_Witness ==
    \E p \in Returned("getState") :
        /\ drv[p].instance.exists
        /\ drv[p].instance.status \notin KnownStatuses
        /\ drv[p].disk
        /\ drv[p].result.state = "None"

\* C2: from a host with no disk and no instance, create, stop, start, each
\* succeeding, give the derived states Running, Stopped, Running; after stop
\* the disk still exists and the instance does not; and one disk-insert call
\* is issued over the whole sequence, the disk after start being the one
\* create made.
C2_CreateStopStart ==
    /\ obs.stage = "created" => obs.derived = <<"Running">> /\ obs.inserts = 1
    /\ obs.stage = "stopped" =>
        obs.derived = <<"Running", "Stopped">> /\ obs.disk /\ ~obs.inst /\ obs.inserts = 1
    /\ obs.stage = "started" =>
        obs.derived = <<"Running", "Stopped", "Running">> /\ obs.disk /\ ~obs.inst /\ obs.inserts = 1

\* the three verbs succeeded in this order on a fresh host
C2_Witness == obs.stage = "started" /\ disk.exists /\ inst.exists

RestartLog ==
    <<Event("call", "instDelete", Nil), Event("wait", "instDelete", Nil),
      Event("step", "deleteInstance", Nil),
      Event("call", "instInsert", Nil), Event("wait", "instInsert", Nil),
      Event("call", "setMetadata", Nil), Event("wait", "setMetadata", Nil),
      Event("step", "createInstance", Nil)>>

\* C3: a restart of a Running host (disk and RUNNING instance) that succeeds has issued one instance-delete, waited for it to be
\* DONE, then one instance-insert (and the metadata write), no disk-insert
\* and no disk-delete, and leaves the derived state Running with the same
\* disk; and in any restart an instance-insert is issued only after the
\* instance-delete and its wait succeeded.
C3_Restart ==
    /\ \A p \in Returned("restart") :
        drv[p].start.state = "Running" /\ drv[p].result.err = Nil =>
            /\ drv[p].log = RestartLog
            /\ DerivedState = "Running"
            /\ disk = drv[p].start.disk
    /\ \A p \in Procs :
        drv[p].verb = "restart" /\ (\E i \in 1..Len(drv[p].log) : drv[p].log[i].ev = "call"
                                        /\ drv[p].log[i].what = "instInsert") =>
            /\ Len(drv[p].log) >= 3
            /\ drv[p].log[1] = Event("call", "instDelete", Nil)
            /\ drv[p].log[2] = Event("wait", "instDelete", Nil)
            /\ drv[p].log[3] = Event("step", "deleteInstance", Nil)

\* a restart of a Running host succeeded
C3_Witness ==
    \E p \in Returned("restart") :
        /\ drv[p].start.state = "Running"
        /\ drv[p].result.err = Nil
        /\ drv[p].log = RestartLog

\* C4: a remove that nothing disturbs issues instance-delete then disk-delete
\* on a host whose derived state is Running, and only disk-delete on a host
\* whose derived state is Stopped (the disk alone, or an instance that is
\* STOPPING, STOPPED or TERMINATED); after either, the derived state is None.
C4_Remove ==
    \A p \in Returned("remove") :
        Undisturbed(p) =>
            /\ drv[p].start.state = "Running" => Calls(drv[p].log) = <<"instDelete", "diskDelete">>
            /\ drv[p].start.state = "Stopped" => Calls(drv[p].log) = <<"diskDelete">>
            /\ drv[p].start.state \in {"Running", "Stopped"} => DerivedState = "None"

\* what remove does hold to: the calls are those of C4, and the host is gone
\* unless an instance that is not RUNNING was there
C4_RemoveButStoppedInstance ==
    \A p \in Returned("remove") :
        Undisturbed(p) =>
            /\ drv[p].start.state = "Running" => Calls(drv[p].log) = <<"instDelete", "diskDelete">>
            /\ drv[p].start.state = "Stopped" => Calls(drv[p].log) = <<"diskDelete">>
            /\ drv[p].start.state = "Running" \/ (drv[p].start.state = "Stopped" /\ ~drv[p].start.inst.exists)
                  => DerivedState = "None" /\ drv[p].result.err = Nil
            /\ drv[p].start.state = "Stopped" /\ drv[p].start.inst.exists
                  => DerivedState = "Stopped" /\ inst = drv[p].start.inst /\ drv[p].result.err # Nil

\* C5: a create called while an instance exists issues no mutating call and
\* returns an error.
C5_CreateGuard ==
    \A p \in Procs :
        drv[p].verb = "create" /\ drv[p].start.inst.exists =>
            /\ Calls(drv[p].log) = <<>>
            /\ drv[p].pc = "ret" => drv[p].result.err # Nil

\* what create does hold to: the guard works whenever the instance lookup answers
C5_CreateGuardWhenLookupAnswers ==
    \A p \in Procs :
        drv[p].verb = "create" /\ drv[p].start.inst.exists /\ Undisturbed(p) =>
            /\ Calls(drv[p].log) = <<>>
            /\ drv[p].pc = "ret" => drv[p].result.err = Err("alreadyExists")

\* the polls of p's current waitForOp call
Polls(p) == drv[p].polls

\* C6: waitForOp returns nil exactly at its first poll that reports DONE with
\* no errors, having polled as many times as it took to see it; a poll that
\* reports DONE with errors makes it return the first error; and no poll
\* follows a poll that reported DONE.
C6_Waiter ==
    \A p \in Procs :
        /\ drv[p].wres.done /\ drv[p].wres.err = Nil =>
            /\ Polls(p) # <<>>
            /\ Polls(p)[Len(Polls(p))] = Poll("DONE", <<>>, FALSE)
            /\ \A i \in 1..(Len(Polls(p)) - 1) : Polls(p)[i].status \in {"PENDING", "RUNNING"}
        /\ \A i \in 1..Len(Polls(p)) :
            Polls(p)[i].status = "DONE" =>
                /\ i = Len(Polls(p))
                /\ drv[p].pc = "waitReturn"
                /\ drv[p].wres.done
                /\ drv[p].wres.err = IF Polls(p)[i].errs = <<>> THEN Nil
                                     ELSE OperationError(Head(Polls(p)[i].errs))

\* RUNNING, RUNNING, DONE: waitForOp returned nil after three polls
C6_Witness ==
    \E p \in Procs :
        /\ drv[p].pc = "waitReturn"
        /\ drv[p].wres = [done |-> TRUE, err |-> Nil]
        /\ Polls(p) = <<Poll("RUNNING", <<>>, FALSE), Poll("RUNNING", <<>>, FALSE), Poll("DONE", <<>>, FALSE)>>

\* DONE with two errors: waitForOp returned the first
C6_WitnessFirstError ==
    \E p \in Procs :
        /\ drv[p].pc = "waitReturn"
        /\ Len(Polls(p)[Len(Polls(p))].errs) = 2
        /\ drv[p].wres.err = OperationError("RESOURCE_NOT_READY")

\* C7, as stated: on every poll, whatever status it reports, an operation that
\* carries errors makes waitForOp return the first error without polling again.
C7_ErrorsOnAnyPoll ==
    \A p \in Procs : \A i \in 1..Len(Polls(p)) :
        Polls(p)[i].errs # <<>> =>
            /\ i = Len(Polls(p))
            /\ drv[p].wres = [done |-> TRUE, err |-> OperationError(Head(Polls(p)[i].errs))]

\* C7, amended: a poll that reports DONE with errors makes waitForOp return
\* the first error without polling again; after a poll that reports PENDING
\* or RUNNING it has not returned, whether or not the operation carries errors.
C7_ErrorsOnDonePoll ==
    \A p \in Procs : \A i \in 1..Len(Polls(p)) :
        /\ Polls(p)[i].status = "DONE" /\ Polls(p)[i].errs # <<>> =>
            /\ i = Len(Polls(p))
            /\ drv[p].wres = [done |-> TRUE, err |-> OperationError(Head(Polls(p)[i].errs))]
        /\ Polls(p)[i].status \in {"PENDING", "RUNNING"} =>
            \/ i < Len(Polls(p))
            \/ drv[p].pc = "waitForOp" /\ ~drv[p].wres.done

\* a poll reported RUNNING with errors, waitForOp polled again and returned
\* the first error at DONE
C7_Witness ==
    \E p \in Procs :
        /\ Len(Polls(p)) >= 2
        /\ Polls(p)[1].status = "RUNNING" /\ Polls(p)[1].errs # <<>>
        /\ Polls(p)[Len(Polls(p))].status = "DONE"
        /\ drv[p].wres = [done |-> TRUE, err |-> OperationError(Head(Polls(p)[1].errs))]

\* the lifecycle step that waits for an operation of this kind
StepOf(kind) ==
    CASE kind = "diskInsert" -> "createDisk"
      [] kind \in {"instInsert", "setMetadata"} -> "createInstance"
      [] kind = "instDelete" -> "deleteInstance"
      [] OTHER -> "deleteDisk"

\* C8: an operation query that fails makes waitForOp return that failure at
\* once, without another poll, and the lifecycle step that waited returns the
\* same failure and issues no call after it (createInstance too, when the
\* step was createDisk).
C8_QueryFailure ==
    \A p \in Procs :
        /\ \A i \in 1..Len(Polls(p)) :
            Polls(p)[i].fail =>
                /\ i = Len(Polls(p))
                /\ drv[p].pc = "waitReturn"
                /\ drv[p].wres = [done |-> TRUE, err |-> Err("transport")]
        /\ \A i \in 1..Len(drv[p].log) :
            drv[p].log[i].ev = "wait" /\ drv[p].log[i].err = Err("transport") =>
                /\ Len(drv[p].log) > i
                /\ drv[p].log[i + 1] = Event("step", StepOf(drv[p].log[i].what), Err("transport"))
                /\ drv[p].log[i].what = "diskInsert" =>
                    /\ Len(drv[p].log) = i + 2
                    /\ drv[p].log[i + 2] = Event("step", "createInstance", Err("transport"))
                    /\ drv[p].pc = "ret" /\ drv[p].result.err = Err("transport")
                /\ drv[p].log[i].what \in {"instInsert", "setMetadata"} =>
                    /\ Len(drv[p].log) = i + 1
                    /\ drv[p].pc = "ret" /\ drv[p].result.err = Err("transport")

\* the query of createDisk's operation failed, and createInstance returned
\* the failure after the one call it had made
C8_Witness ==
    \E p \in Returned("create") :
        /\ drv[p].log = <<Event("call", "diskInsert", Nil), Event("wait", "diskInsert", Err("transport")),
                          Event("step", "createDisk", Err("transport")),
                          Event("step", "createInstance", Err("transport"))>>
        /\ drv[p].result.err = Err("transport")

\* C9: createInstance sends SetMetadata with the fingerprint of the instance
\* it fetched after the insert: sent while the instance still has that
\* fingerprint, the write is accepted; sent after another writer changed the
\* metadata, it is rejected, createInstance returns the error without another
\* call, and the instance is left as the other writer set it.
C9_StaleFingerprint ==
    [][\A p \in Procs :
        drv[p].pc = "ci_setmeta" /\ drv'[p].pc # "ci_setmeta" /\ faults' = faults /\ inst.exists =>
            IF inst.fp = drv[p].instance.fp
            THEN /\ drv'[p].pc = "waitForOp"
                 /\ inst' = [inst EXCEPT !.key = "driver", !.fp = @ + 1]
            ELSE /\ drv'[p].pc = "ret"
                 /\ drv'[p].result.err = Err("conditionNotMet")
                 /\ Calls(drv'[p].log) = Append(Calls(drv[p].log), "setMetadata")
                 /\ inst' = inst
                 /\ inst.key = "other"
                 /\ ops' = ops]_vars

\* another writer wrote between the fetch and SetMetadata: createInstance
\* returned the rejection and the other writer's key is in place
C9_Witness ==
    \E p \in Procs :
        /\ drv[p].pc = "ret"
        /\ drv[p].result.err = Err("conditionNotMet")
        /\ drv[p].log[Len(drv[p].log) - 1] = Event("call", "setMetadata", Err("conditionNotMet"))
        /\ inst.exists /\ inst.key = "other" /\ inst.fp = drv[p].instance.fp + 1

\* C10: whenever GetState returns, it returns None if and only if neither the
\* disk nor the instance exists.
C10_NoneIffAbsent ==
    \A p \in Returned("getState") :
        drv[p].result.state = "None" <=> ~disk.exists /\ ~inst.exists

\* what GetState does hold to: None if and only if neither lookup returned a
\* resource, or the instance returned has a status GetState does not know
C10_NoneIffNothingReturned ==
    \A p \in Returned("getState") :
        drv[p].result.state = "None" <=>
            \/ ~drv[p].disk /\ ~drv[p].instance.exists
            \/ drv[p].instance.exists /\ drv[p].instance.status \notin KnownStatuses

IsLookup(s) == s.what \in {"disksGet", "instancesGet"}

\* a lookup or a collaborator failed: a lookup's "not found" is absence, not failure
Failed(s) == s.err # Nil /\ ~(IsLookup(s) /\ s.err = Err("notFound"))

\* C11: every failure of a lookup, a mutating call, an operation wait or a
\* collaborator call made during a verb is returned as the error of that
\* verb: once a step failed, the verb has returned with that error and has
\* made no call and no wait after it.
C11_FailuresSurface ==
    \A p \in Procs :
        /\ \A i \in 1..Len(drv[p].seen) :
            Failed(drv[p].seen[i]) =>
                /\ i = Len(drv[p].seen)
                /\ drv[p].pc = "ret"
                /\ drv[p].result.err = drv[p].seen[i].err
        /\ \A i \in 1..Len(drv[p].log) :
            drv[p].log[i].ev \in {"call", "wait"} /\ drv[p].log[i].err # Nil =>
                /\ drv[p].pc = "ret"
                /\ drv[p].result.err = drv[p].log[i].err
                /\ \A j \in (i + 1)..Len(drv[p].log) : drv[p].log[j].ev = "step"

\* the results the code does not look at: the disk lookups, the instance lookup
\* of GetState and of Create's guard, and waitForSSH
Dropped(p, i) ==
    LET s == drv[p].seen[i] IN
    \/ s.what \in {"disksGet", "waitForSSH"}
    \/ s.what = "instancesGet" /\ drv[p].verb \in {"getState", "remove"}
    \/ s.what = "instancesGet" /\ drv[p].verb = "create" /\ i = 1

\* what the verbs do hold to: every failure is returned but those of the
\* dropped results and that of remove's deleteInstance
C11_FailuresSurfaceButDropped ==
    \A p \in Procs :
        /\ \A i \in 1..Len(drv[p].seen) :
            Failed(drv[p].seen[i]) /\ ~Dropped(p, i) =>
                /\ i = Len(drv[p].seen)
                /\ drv[p].pc = "ret"
                /\ drv[p].result.err = drv[p].seen[i].err
        /\ \A i \in 1..Len(drv[p].log) :
            (/\ drv[p].log[i].ev \in {"call", "wait"}
             /\ drv[p].log[i].err # Nil
             /\ ~(drv[p].verb = "remove" /\ drv[p].log[i].what = "instDelete")) =>
                /\ drv[p].pc = "ret"
                /\ drv[p].result.err = drv[p].log[i].err
                /\ \A j \in (i + 1)..Len(drv[p].log) : drv[p].log[j].ev = "step"

\* C12: the disk and instance lookups give absence with no error when the
\* resource is not found, and give any other error unchanged; and a lookup
\* that failed for another reason than "not found" is not taken for absence:
\* the verb that made it has returned its error.
C12_Lookups ==
    /\ DisksGet(TRUE).err = Err("transport")
    /\ InstancesGet(TRUE).err = Err("transport")
    /\ \A p \in Procs : \A i \in 1..Len(drv[p].seen) :
        IsLookup(drv[p].seen[i]) =>
            /\ ~drv[p].seen[i].val => drv[p].seen[i].err \in {Nil, Err("transport")}
            /\ drv[p].seen[i].err # Nil =>
                /\ i = Len(drv[p].seen)
                /\ drv[p].pc = "ret"
                /\ drv[p].result.err = drv[p].seen[i].err

\* what the lookups do hold to: "not found" comes back as the provider's
\* error with no resource, any error comes back unchanged, and of their
\* callers only createInstance's instance fetch returns it
C12_LookupsAsCoded ==
    /\ ~disk.exists => DisksGet(FALSE) = [val |-> FALSE, err |-> Err("notFound")]
    /\ ~inst.exists => InstancesGet(FALSE) = [val |-> NoInst, err |-> Err("notFound")]
    /\ DisksGet(TRUE).err = Err("transport")
    /\ InstancesGet(TRUE).err = Err("transport")
    /\ \A p \in Procs : \A i \in 1..Len(drv[p].seen) :
        IsLookup(drv[p].seen[i]) =>
            /\ drv[p].seen[i].err # Nil => ~drv[p].seen[i].val
            /\ drv[p].seen[i].err # Nil /\ ~Dropped(p, i) =>
                /\ i = Len(drv[p].seen)
                /\ drv[p].pc = "ret"
                /\ drv[p].result.err = drv[p].seen[i].err

\* C13: a create called on a host with the disk alone (derived state Stopped,
\* no instance) does not bring the host into existence: the derived state
\* does not become Running while the disk it found is still there.
C13_CreateOnLeftoverDisk ==
    \A p \in Procs :
        drv[p].verb = "create" /\ drv[p].start.disk.exists /\ ~drv[p].start.inst.exists =>
            /\ DerivedState = "Running" => disk # drv[p].start.disk
            /\ drv[p].pc = "ret" => drv[p].result.err # Nil

\* what create does hold to: on the disk alone, undisturbed, it runs as start
\* does, with no disk-insert, and ends Running on the disk it found
C13_CreateReusesDisk ==
    \A p \in Returned("create") :
        drv[p].start.disk.exists /\ ~drv[p].start.inst.exists /\ Undisturbed(p) =>
            /\ drv[p].result.err = Nil
            /\ Calls(drv[p].log) = <<"instInsert", "setMetadata">>
            /\ DerivedState = "Running"
            /\ disk = drv[p].start.disk

\* the resulting state of the transition table, for the verbs with no precondition
TableResult(v) ==
    CASE v \in {"start", "restart"} -> "Running"
      [] v \in {"stop", "kill"} -> "Stopped"
      [] OTHER -> "None"

\* C14: from every configuration of disk, instance and status, a start, stop,
\* kill, restart or remove that returns without error leaves the derived
\* state that the transition table gives for the verb: Running after start
\* and restart, Stopped after stop and kill, None after remove.
C14_TransitionTable ==
    \A p \in Procs :
        /\ drv[p].pc = "ret"
        /\ drv[p].verb \in {"start", "stop", "kill", "restart", "remove"}
        /\ drv[p].result.err = Nil
        => DerivedState = TableResult(drv[p].verb)

\* a restart of a host whose instance was TERMINATED succeeded
C14_Witness ==
    \E p \in Returned("restart") :
        /\ drv[p].start.inst.exists
        /\ drv[p].start.inst.status = "TERMINATED"
        /\ drv[p].result.err = Nil
        /\ DerivedState = "Running"

\* a kill succeeded on an instance that was still PROVISIONING
C14_WitnessKill ==
    \E p \in Returned("kill") :
        /\ drv[p].start.inst.status = "PROVISIONING"
        /\ drv[p].result.err = Nil
        /\ DerivedState = "Stopped"

\* the instance-insert operation of p's invocation was seen DONE at log position i
InsertDone(p, i) == i \in 1..Len(drv[p].log) /\ drv[p].log[i] = Event("wait", "instInsert", Nil)

\* C15: once createInstance has seen its instance-insert DONE, it issues no
\* instance-delete and no disk-delete, whatever fails afterwards (the instance
\* fetch, the key file, SetMetadata or its operation, a configuration
\* command): when the verb returns the error, the instance and the disk both
\* still exist.
C15_NoCompensation ==
    \A p \in Procs : \A i \in 1..Len(drv[p].log) :
        InsertDone(p, i) =>
            /\ \A j \in (i + 1)..Len(drv[p].log) :
                ~(drv[p].log[j].ev = "call" /\ drv[p].log[j].what \in {"instDelete", "diskDelete"})
            /\ drv[p].pc = "ret" /\ drv[p].result.err # Nil =>
                /\ inst.exists
                /\ disk.exists

\* a configuration command failed after the key was pushed: createInstance
\* returned the error and the instance runs on
C15_Witness ==
    \E p \in Procs : \E i \in 1..Len(drv[p].log) :
        /\ InsertDone(p, i)
        /\ drv[p].pc = "ret"
        /\ drv[p].result.err = Err("command")
        /\ inst.exists /\ inst.status = "RUNNING" /\ inst.key = "driver"
        /\ disk.exists

\* the SetMetadata operation failed: createInstance returned its first error
C15_WitnessOperation ==
    \E p \in Procs : \E i \in 1..Len(drv[p].log) :
        /\ InsertDone(p, i)
        /\ drv[p].pc = "ret"
        /\ drv[p].result.err = OperationError("QUOTA_EXCEEDED")
        /\ drv[p].log[Len(drv[p].log) - 1].what = "setMetadata"
        /\ inst.exists /\ disk.exists

\* C16: deleteInstance and deleteDisk do not look whether the resource is
\* there: called when it is absent, they return the provider's "not found"
\* without starting an operation wait, and leave the other resource as it
\* was; so stop, kill and restart on a host with no instance, and remove on a
\* host with no disk, return that error after the one call.
C16_DeleteUnguarded ==
    \A p \in Procs :
        /\ \A i \in 1..Len(drv[p].log) :
            /\ drv[p].log[i].ev = "call"
            /\ drv[p].log[i].what \in {"instDelete", "diskDelete"}
            /\ drv[p].log[i].err # Nil
            => /\ Len(drv[p].log) > i
               /\ drv[p].log[i + 1] = Event("step", StepOf(drv[p].log[i].what), drv[p].log[i].err)
        /\ drv[p].pc = "ret" /\ Undisturbed(p) =>
            /\ drv[p].verb \in {"stop", "kill", "restart"} /\ ~drv[p].start.inst.exists =>
                /\ drv[p].log = <<Event("call", "instDelete", Err("notFound")),
                                  Event("step", "deleteInstance", Err("notFound"))>>
                /\ drv[p].result.err = Err("notFound")
                /\ disk = drv[p].start.disk
                /\ DOMAIN ops = {}
            /\ drv[p].verb = "remove" /\ ~drv[p].start.disk.exists =>
                /\ drv[p].log = <<Event("state", "None", Nil),
                                  Event("call", "diskDelete", Err("notFound")),
                                  Event("step", "deleteDisk", Err("notFound"))>>
                /\ drv[p].result.err = Err("notFound")
                /\ inst = drv[p].start.inst
                /\ DOMAIN ops = {}

\* stop returned "not found" on a host with the disk alone, and the disk is there
C16_Witness ==
    \E p \in Returned("stop") :
        /\ ~drv[p].start.inst.exists
        /\ drv[p].result.err = Err("notFound")
        /\ drv[p].log[1] = Event("call", "instDelete", Err("notFound"))
        /\ disk.exists

\* remove returned "not found" on a host with no disk
C16_WitnessRemove ==
    \E p \in Returned("remove") :
        /\ ~drv[p].start.disk.exists
        /\ drv[p].result.err = Err("notFound")

\* C17: stop and kill issue no disk-insert and no disk-delete (their only
\* call is the instance-delete), and whether they succeed or fail the disk
\* is, during and after the call, what it was before it.
C17_StopKeepsDisk ==
    \A p \in Procs :
        drv[p].verb \in {"stop", "kill"} =>
            /\ \A i \in 1..Len(drv[p].log) :
                drv[p].log[i].ev = "call" => drv[p].log[i].what = "instDelete"
            /\ Len(Calls(drv[p].log)) <= 1
            /\ disk = drv[p].start.disk

\* a stop deleted the instance of a host: the disk is there
C17_Witness ==
    \E p \in Returned("stop") :
        /\ drv[p].start.inst.exists
        /\ drv[p].result.err = Nil
        /\ ~inst.exists
        /\ disk.exists /\ disk = drv[p].start.disk

\* a kill failed on the operation's error: the disk and the instance are there
C17_WitnessFailed ==
    \E p \in Returned("kill") :
        /\ drv[p].result.err = OperationError("QUOTA_EXCEEDED")
        /\ inst.exists
        /\ disk.exists /\ disk = drv[p].start.disk

\* the invocations that run createInstance, and what its disk lookup returned
RunsCreateInstance(p) == drv[p].verb \in {"create", "start", "restart"}
DiskLookups(p) == {i \in 1..Len(drv[p].seen) : drv[p].seen[i].what = "disksGet"}
HasCall(p, kind) == \E i \in 1..Len(drv[p].log) : drv[p].log[i].ev = "call" /\ drv[p].log[i].what = kind

\* C18: createInstance issues the disk-insert exactly when its disk lookup
\* returned no disk; the instance-insert is then issued only after the
\* disk-insert was accepted and its operation waited for until DONE without
\* error; when createDisk fails no instance-insert is issued; and when the
\* lookup returned a disk no disk-insert is issued.
C18_DiskInsertWhenNoDisk ==
    \A p \in Procs :
        RunsCreateInstance(p) =>
            /\ Cardinality(DiskLookups(p)) <= 1
            /\ HasCall(p, "diskInsert") \/ drv[p].pc = "cd_insert"
                    <=> \E i \in DiskLookups(p) : ~drv[p].seen[i].val
            /\ (\E i \in DiskLookups(p) : drv[p].seen[i].val) => ~HasCall(p, "diskInsert")
            /\ \A j \in 1..Len(drv[p].log) :
                /\ drv[p].log[j].ev = "call" /\ drv[p].log[j].what = "instInsert" =>
                    /\ DiskLookups(p) # {}
                    /\ HasCall(p, "diskInsert") =>
                        /\ j >= 4
                        /\ drv[p].log[j - 3] = Event("call", "diskInsert", Nil)
                        /\ drv[p].log[j - 2] = Event("wait", "diskInsert", Nil)
                        /\ drv[p].log[j - 1] = Event("step", "createDisk", Nil)
                /\ drv[p].log[j].ev = "step" /\ drv[p].log[j].what = "createDisk" /\ drv[p].log[j].err # Nil =>
                    /\ ~HasCall(p, "instInsert")
                    /\ drv[p].pc = "ret"
                    /\ drv[p].result.err = drv[p].log[j].err

\* start on a host with nothing: the disk was inserted and waited for, then
\* the instance
C18_Witness ==
    \E p \in Returned("start") :
        /\ ~drv[p].seen[1].val
        /\ drv[p].result.err = Nil
        /\ Calls(drv[p].log) = <<"diskInsert", "instInsert", "setMetadata">>
        /\ drv[p].log[2] = Event("wait", "diskInsert", Nil)

\* the disk-insert operation failed: no instance-insert
C18_WitnessCreateDiskFails ==
    \E p \in Returned("start") :
        /\ drv[p].log = <<Event("call", "diskInsert", Nil),
                          Event("wait", "diskInsert", OperationError("QUOTA_EXCEEDED")),
                          Event("step", "createDisk", OperationError("QUOTA_EXCEEDED")),
                          Event("step", "createInstance", OperationError("QUOTA_EXCEEDED"))>>
        /\ ~inst.exists

\* the lookup returned the disk: the instance was inserted on it
C18_WitnessDiskFound ==
    \E p \in Returned("start") :
        /\ drv[p].seen[1] = [what |-> "disksGet", val |-> TRUE, err |-> Nil]
        /\ drv[p].result.err = Nil
        /\ Calls(drv[p].log) = <<"instInsert", "setMetadata">>

\* the mutating call at log position i was accepted, and the invocation waits
\* or has waited for its operation
WaitFollows(p, i) ==
    IF i = Len(drv[p].log)
    THEN drv[p].pc \in {"waitForOp", "waitReturn"} /\ drv[p].wret = drv[p].log[i].what
    ELSE drv[p].log[i + 1].ev = "wait" /\ drv[p].log[i + 1].what = drv[p].log[i].what

Accepted(p) == {i \in 1..Len(drv[p].log) : drv[p].log[i].ev = "call" /\ drv[p].log[i].err = Nil}
LaterCalls(p, i) == {j \in (i + 1)..Len(drv[p].log) : drv[p].log[j].ev = "call"}

CallsOf(p, kind) == {i \in 1..Len(drv[p].log) : drv[p].log[i].ev = "call" /\ drv[p].log[i].what = kind}
WaitsOf(p, kind) == {i \in 1..Len(drv[p].log) : drv[p].log[i].ev = "wait" /\ drv[p].log[i].what = kind}

\* C20: nothing is retried: in one invocation each kind of mutating call
\* (disk-insert, instance-insert, setMetadata, instance-delete, disk-delete)
\* is issued at most once and waited for at most once, so that after a call
\* or its operation failed no call of that kind follows.
C20_NoRetry ==
    \A p \in Procs : \A kind \in DiskKinds \cup InstKinds :
        /\ Cardinality(CallsOf(p, kind)) <= 1
        /\ Cardinality(WaitsOf(p, kind)) <= 1
        /\ \A i \in CallsOf(p, kind) \cup WaitsOf(p, kind) :
            drv[p].log[i].err # Nil =>
                \A j \in (i + 1)..Len(drv[p].log) : ~(drv[p].log[j].ev = "call" /\ drv[p].log[j].what = kind)

\* the disk-insert call failed in transport: createInstance returned after
\* that one call, and there is no disk
C20_Witness ==
    \E p \in Returned("create") :
        /\ drv[p].log = <<Event("call", "diskInsert", Err("transport")),
                          Event("step", "createDisk", Err("transport")),
                          Event("step", "createInstance", Err("transport"))>>
        /\ ~disk.exists

\* the instance-insert operation failed: restart returned after the delete
\* and the one insert
C20_WitnessOperation ==
    \E p \in Returned("restart") :
        /\ Calls(drv[p].log) = <<"instDelete", "instInsert">>
        /\ drv[p].result.err = OperationError("QUOTA_EXCEEDED")
        /\ ~inst.exists

\* the state remove derived at its start, once it has
RemoveDerived(p) == drv[p].log[1].what

C22_WitnessStarting ==
    \E p \in Returned("remove") :
        /\ RemoveDerived(p) = "Starting"
        /\ Calls(drv[p].log) = <<"diskDelete">>
        /\ inst.exists

(* ------------------------------ liveness ------------------------------- *)

\* waitForOp's loop goes on polling and its caller goes on with what it
\* returned (the flow of control is sequential and nothing cancels it); the
\* compute API brings every operation to DONE
Fairness ==
    /\ WF_vars(\E p \in Procs : WaitForOp(p, FALSE))
    /\ WF_vars(\E p \in Procs : WaitReturn(p))
    /\ WF_vars(\E n \in OpNames : AdvanceOp(n))

LiveSpec == Init /\ [][Next]_vars /\ Fairness

\* the callers there can be
Callers == {"p1", "p2"}

InWaitForOp(p) == p \in Procs /\ drv[p].pc = "waitForOp"
WaitForOpReturned(p) == p \in Procs /\ drv[p].pc = "waitReturn"

\* C21: waitForOp has no timeout.  It leaves its loop only on a poll that
\* reported DONE or on a query that failed, so it never returns success for an
\* operation not reported DONE, and while the provider reports PENDING or
\* RUNNING it, and the verb that called it, do not return; and when the
\* provider does bring the operation to DONE, waitForOp returns.
C21_NoTimeout ==
    /\ [][\A p \in Procs :
            drv[p].pc = "waitForOp" =>
                \/ drv'[p].pc = "waitForOp" /\ drv'[p].verb = drv[p].verb /\ ~drv'[p].wres.done
                \/ /\ drv'[p].pc = "waitReturn"
                   /\ drv'[p].wres.done
                   /\ LET last == drv'[p].polls[Len(drv'[p].polls)] IN
                        \/ last.fail /\ drv'[p].wres.err = Err("transport")
                        \/ last.status = "DONE" /\ ops[drv[p].op].status = "DONE"
                   /\ drv'[p].wres.err = Nil =>
                        drv'[p].polls[Len(drv'[p].polls)] = Poll("DONE", <<>>, FALSE)]_vars
    /\ \A p \in Callers : InWaitForOp(p) ~> WaitForOpReturned(p)

\* waitForOp has polled as often as is counted, the operation is not DONE,
\* and it is still waiting
C21_Witness ==
    \E p \in Procs :
        /\ drv[p].pc = "waitForOp"
        /\ Len(Polls(p)) = MaxPolls
        /\ \A i \in 1..MaxPolls : Polls(p)[i].status \in {"PENDING", "RUNNING"}
        /\ ops[drv[p].op].status # "DONE"

\* PENDING, RUNNING, DONE: waitForOp returned at the third poll
C21_WitnessReturns ==
    \E p \in Procs :
        /\ drv[p].pc = "waitReturn"
        /\ drv[p].wres = [done |-> TRUE, err |-> Nil]
        /\ Polls(p) = <<Poll("PENDING", <<>>, FALSE), Poll("RUNNING", <<>>, FALSE), Poll("DONE", <<>>, FALSE)>>

(* ------------------------- two callers of create ----------------------- *)

\* two Create calls for the same host, each made once, against a host with
\* nothing, with the disk alone, or with a running instance
InitTwoCreates ==
    /\ \E h \in Hosts : disk = h[1] /\ inst = h[2] /\ inst.status \in {"", "RUNNING"}
    /\ ops = EmptyOps
    /\ drv = [p \in Callers |-> Idle]
    /\ faults = 0
    /\ writes = 0
    /\ obs = ObsOff

NextTwoCreates ==
    \/ \E n \in OpNames : AdvanceOp(n)
    \/ \E n \in OpNames, errs \in ErrorLists : FailOp(n, errs)
    \/ \E p \in Procs : StartVerb(p, "create")
    \/ \E p \in Procs, fail \in BOOLEAN : CreateCheck(p, fail)
    \/ \E p \in Procs, fail \in BOOLEAN : CreateKeygen(p, fail)
    \/ \E p \in Procs, fail \in BOOLEAN : CreateInstanceDisk(p, fail)
    \/ \E p \in Procs, fail \in BOOLEAN : CreateDisk(p, fail)
    \/ \E p \in Procs, fail \in BOOLEAN : CreateInstanceInsert(p, fail)
    \/ \E p \in Procs, fail \in BOOLEAN : CreateInstanceGet(p, fail)
    \/ \E p \in Procs, fail \in BOOLEAN : CreateInstanceSSH(p, fail)
    \/ \E p \in Procs, fail \in BOOLEAN : CreateInstanceReadKey(p, fail)
    \/ \E p \in Procs, fail \in BOOLEAN : CreateInstanceSetMetadata(p, fail)
    \/ \E p \in Procs, fail \in BOOLEAN : CreateInstanceConfigure(p, fail)
    \/ \E p \in Procs, fail \in BOOLEAN : CreateInstanceUpdate(p, fail)
    \/ \E p \in Procs, fail \in BOOLEAN : WaitForOp(p, fail)
    \/ \E p \in Procs : WaitReturn(p)

SpecTwoCreates == InitTwoCreates /\ [][NextTwoCreates]_vars

\* the callers whose insert of this kind was accepted and seen DONE without error
Inserted(kind) == {p \in Procs : \E i \in 1..Len(drv[p].log) : drv[p].log[i] = Event("wait", kind, Nil)}

\* the provider's rejections of an insert
Rejections == {Err("alreadyExists"), Err("resourceNotReady"), Err("notFound")}

\* in every state of two interleaved creates
TwoCreatesInv ==
    /\ Cardinality(Inserted("diskInsert")) <= 1
    /\ Cardinality(Inserted("instInsert")) <= 1
    /\ Inserted("diskInsert") # {} => disk.exists
    /\ Inserted("instInsert") # {} => inst.exists /\ disk.exists
    /\ \A p \in Procs :
        /\ ~HasCall(p, "instDelete") /\ ~HasCall(p, "diskDelete")
        /\ \A i \in 1..Len(drv[p].log) :
            drv[p].log[i].ev = "call" /\ drv[p].log[i].err \in Rejections =>
                /\ drv[p].pc = "ret"
                /\ drv[p].result.err = drv[p].log[i].err
                /\ \A j \in (i + 1)..Len(drv[p].log) : drv[p].log[j].ev = "step"

\* C23: when two create calls for the same host run interleaved, against a
\* provider that rejects the insert of a name that exists, the disk is
\* inserted with success at most once and so is the instance; the call whose
\* insert is rejected returns that error with no further call; and neither
\* call deletes or replaces a disk or an instance that is there: once
\* inserted with success it stays, the same.
C23_TwoCreates ==
    /\ []TwoCreatesInv
    /\ [][/\ disk.exists /\ disk'.exists => disk'.id = disk.id
          /\ inst.exists /\ inst'.exists => inst'.id = inst.id
          /\ disk.exists /\ ~disk'.exists => \E n \in DOMAIN ops : ops[n].kind = "diskInsert" /\ ops'[n].errs # <<>>
          /\ inst.exists /\ ~inst'.exists => \E n \in DOMAIN ops : ops[n].kind = "instInsert" /\ ops'[n].errs # <<>>]_vars

\* one caller inserted the disk and the other, finding it, the instance: the
\* first had its instance-insert rejected and returned the error, the second
\* succeeded
C23_Witness ==
    /\ drv["p1"].pc = "ret" /\ drv["p2"].pc = "ret"
    /\ Calls(drv["p1"].log) = <<"diskInsert", "instInsert">>
    /\ drv["p1"].log[2] = Event("wait", "diskInsert", Nil)
    /\ drv["p1"].result.err = Err("alreadyExists")
    /\ Calls(drv["p2"].log) = <<"instInsert", "setMetadata">>
    /\ drv["p2"].result.err = Nil
    /\ disk.exists /\ inst.exists /\ inst.status = "RUNNING"

\* both callers found no disk: the second disk-insert was rejected
C23_WitnessDisk ==
    /\ drv["p1"].pc = "ret" /\ drv["p2"].pc = "ret"
    /\ drv["p2"].log = <<Event("call", "diskInsert", Err("alreadyExists")),
                         Event("step", "createDisk", Err("alreadyExists")),
                         Event("step", "createInstance", Err("alreadyExists"))>>
    /\ drv["p1"].result.err = Nil
    /\ Calls(drv["p1"].log) = <<"diskInsert", "instInsert", "setMetadata">>

====
